---------------------------- MODULE Spec2Model ----------------------------
(***************************************************************************)
(* Student Paycheck Buddy (src/app.py): the request handlers of the Flask  *)
(* application over its five tables, with the date and money helpers the   *)
(* handlers call.                                                          *)
(*                                                                         *)
(* Text (form fields, the TEXT columns next_payday and occurred_on) is a   *)
(* sequence of one-character strings, so that strptime's parsing,          *)
(* strftime's padding and SQLite's bytewise comparison of TEXT are each    *)
(* computed as the program computes them.  A datetime.date is a triple     *)
(* <<year, month, day>>; date arithmetic goes through the proleptic        *)
(* Gregorian ordinal exactly as datetime does (toordinal / fromordinal).   *)
(*                                                                         *)
(* The tables are modelled from the statements app.py runs on them: a row  *)
(* has the columns the INSERT names, and pay_schedules and budgets are     *)
(* unique on the conflict targets their upserts name (schema.sql itself is *)
(* not among the sources).  Amounts stay far inside SQLite's 64-bit        *)
(* INTEGER.  The read-only list pages (GET /transactions, GET /bills) and  *)
(* the empty forms are not modelled.                                       *)
(***************************************************************************)
EXTENDS Integers, Sequences, FiniteSets, TLC

VARIABLES
    today,            \* the value date.today() returns
    pay_schedules,    \* table pay_schedules: a set of rows
    transactions,     \* table transactions: rows in insertion (id) order
    budgets,          \* table budgets: a set of rows
    recurring_bills,  \* table recurring_bills: rows in insertion (id) order
    response          \* what the last request returned (handler, form, outcome)

vars == <<today, pay_schedules, transactions, budgets, recurring_bills, response>>

-----------------------------------------------------------------------------
(* Characters and text                                                     *)

DigitChars == <<"0", "1", "2", "3", "4", "5", "6", "7", "8", "9">>

IsDigit(c) == \E i \in 1..10 : DigitChars[i] = c

DigitVal(c) == (CHOOSE i \in 1..10 : DigitChars[i] = c) - 1

\* The characters the model's texts are written in, in ascending byte (ASCII)
\* order; SQLite's default BINARY collation orders TEXT by byte value.
Alphabet ==
    <<" ", "+", "-", ".", "0", "1", "2", "3", "4", "5", "6", "7", "8", "9",
      "C", "R", "e", "f", "n", "o", "t", "x">>

\* The rank of a character in byte order.
Ord(c) == CHOOSE i \in 1..Len(Alphabet) : Alphabet[i] = c

Min(a, b) == IF a <= b THEN a ELSE b

Max(a, b) == IF a >= b THEN a ELSE b

\* memcmp over the common prefix, then the shorter text first.
RECURSIVE TextLE(_, _)
TextLE(a, b) ==
    IF a = <<>> THEN TRUE
    ELSE IF b = <<>> THEN FALSE
    ELSE IF Ord(Head(a)) # Ord(Head(b)) THEN Ord(Head(a)) < Ord(Head(b))
    ELSE TextLE(Tail(a), Tail(b))

\* x BETWEEN lo AND hi on TEXT values.
Between(x, lo, hi) == TextLE(lo, x) /\ TextLE(x, hi)

\* str.strip() for the one whitespace character of the alphabet.
RECURSIVE LStrip(_)
LStrip(s) == IF s # <<>> /\ Head(s) = " " THEN LStrip(Tail(s)) ELSE s

RECURSIVE RStrip(_)
RStrip(s) ==
    IF s # <<>> /\ s[Len(s)] = " " THEN RStrip(SubSeq(s, 1, Len(s) - 1)) ELSE s

Strip(s) == RStrip(LStrip(s))

\* Position of the first occurrence of character c in s, 0 when absent.
IndexOf(s, c) ==
    IF \E i \in 1..Len(s) : s[i] = c
    THEN CHOOSE i \in 1..Len(s) : s[i] = c /\ \A j \in 1..(i - 1) : s[j] # c
    ELSE 0

AllDigits(s) == s # <<>> /\ \A i \in 1..Len(s) : IsDigit(s[i])

RECURSIVE DigitsValue(_)
DigitsValue(s) ==
    IF s = <<>> THEN 0
    ELSE 10 * DigitsValue(SubSeq(s, 1, Len(s) - 1)) + DigitVal(s[Len(s)])

\* The decimal digits of n >= 0, left-padded with zeros to the given width.
RECURSIVE Decimal(_, _)
Decimal(n, width) ==
    IF n < 10 /\ width <= 1 THEN <<DigitChars[n + 1]>>
    ELSE Decimal(n \div 10, width - 1) \o <<DigitChars[(n % 10) + 1]>>

-----------------------------------------------------------------------------
(* datetime.date                                                           *)

IsLeap(y) == y % 4 = 0 /\ (y % 100 # 0 \/ y % 400 = 0)

DaysInMonth(y, m) ==
    IF m = 2 THEN (IF IsLeap(y) THEN 29 ELSE 28)
    ELSE IF m \in {4, 6, 9, 11} THEN 30 ELSE 31

DaysBeforeYear(y) ==
    LET y1 == y - 1 IN y1 * 365 + (y1 \div 4) - (y1 \div 100) + (y1 \div 400)

RECURSIVE DaysBeforeMonth(_, _)
DaysBeforeMonth(y, m) ==
    IF m = 1 THEN 0 ELSE DaysBeforeMonth(y, m - 1) + DaysInMonth(y, m - 1)

\* date.toordinal()
ToOrdinal(d) == DaysBeforeYear(d[1]) + DaysBeforeMonth(d[1], d[2]) + d[3]

\* date.fromordinal(n), by datetime's 400/100/4/1-year cycle decomposition.
FromOrdinal(ordinal) ==
    LET n0   == ordinal - 1
        n400 == n0 \div 146097
        r400 == n0 % 146097
        n100 == r400 \div 36524
        r100 == r400 % 36524
        n4   == r100 \div 1461
        r4   == r100 % 1461
        n1   == r4 \div 365
        n    == r4 % 365
        year == n400 * 400 + 1 + n100 * 100 + n4 * 4 + n1
    IN  IF n1 = 4 \/ n100 = 4 THEN <<year - 1, 12, 31>>
        ELSE LET guess  == (n + 50) \div 32
                 before == DaysBeforeMonth(year, guess)
                 month  == IF before > n THEN guess - 1 ELSE guess
                 prec   == DaysBeforeMonth(year, month)
             IN  <<year, month, n - prec + 1>>

\* The calendar's next and previous day.
NextDay(d) ==
    IF d[3] < DaysInMonth(d[1], d[2]) THEN <<d[1], d[2], d[3] + 1>>
    ELSE IF d[2] < 12 THEN <<d[1], d[2] + 1, 1>>
    ELSE <<d[1] + 1, 1, 1>>

PrevDay(d) ==
    IF d[3] > 1 THEN <<d[1], d[2], d[3] - 1>>
    ELSE IF d[2] > 1 THEN <<d[1], d[2] - 1, DaysInMonth(d[1], d[2] - 1)>>
    ELSE <<d[1] - 1, 12, 31>>

\* date +/- timedelta(days=k)
AddDays(d, k) == FromOrdinal(ToOrdinal(d) + k)

\* (a - b).days
DaysBetween(a, b) == ToOrdinal(a) - ToOrdinal(b)

\* date < date
DateLT(a, b) ==
    \/ a[1] < b[1]
    \/ a[1] = b[1] /\ a[2] < b[2]
    \/ a[1] = b[1] /\ a[2] = b[2] /\ a[3] < b[3]

\* date.replace(day=k)
ReplaceDay(d, k) == <<d[1], d[2], k>>

-----------------------------------------------------------------------------
(* Date and money helpers of app.py                                        *)

Ok(v) == [ok |-> TRUE, val |-> v]

\* A raised ValueError.
Raised == [ok |-> FALSE, val |-> <<>>]

\* strptime's %m: 1[0-2] | 0[1-9] | [1-9]
MatchesMonth(t) ==
    \/ Len(t) = 2 /\ t[1] = "1" /\ t[2] \in {"0", "1", "2"}
    \/ Len(t) = 2 /\ t[1] = "0" /\ IsDigit(t[2]) /\ t[2] # "0"
    \/ Len(t) = 1 /\ IsDigit(t[1]) /\ t[1] # "0"

\* strptime's %d: 3[0-1] | [1-2]\d | 0[1-9] | [1-9] | " "[1-9]
MatchesDay(t) ==
    \/ Len(t) = 2 /\ t[1] = "3" /\ t[2] \in {"0", "1"}
    \/ Len(t) = 2 /\ t[1] \in {"1", "2"} /\ IsDigit(t[2])
    \/ Len(t) = 2 /\ t[1] \in {"0", " "} /\ IsDigit(t[2]) /\ t[2] # "0"
    \/ Len(t) = 1 /\ IsDigit(t[1]) /\ t[1] # "0"

\* datetime.strptime(s, "%Y-%m-%d").date(): the whole text must match
\* \d\d\d\d-%m-%d and name a day of the calendar, else ValueError.
parse_ymd(s) ==
    IF Len(s) < 6 \/ ~AllDigits(SubSeq(s, 1, 4)) \/ s[5] # "-" THEN Raised
    ELSE LET rest == SubSeq(s, 6, Len(s))
             i    == IndexOf(rest, "-")
         IN  IF i = 0 THEN Raised
             ELSE LET mt == SubSeq(rest, 1, i - 1)
                      dt == SubSeq(rest, i + 1, Len(rest))
                  IN  IF ~MatchesMonth(mt) \/ ~MatchesDay(dt) THEN Raised
                      ELSE LET y == DigitsValue(SubSeq(s, 1, 4))
                               m == DigitsValue(mt)
                               d == DigitsValue(LStrip(dt))
                           IN  IF y < 1 \/ d > DaysInMonth(y, m) THEN Raised
                               ELSE Ok(<<y, m, d>>)

\* d.strftime("%Y-%m-%d")
ymd(d) == Decimal(d[1], 4) \o <<"-">> \o Decimal(d[2], 2) \o <<"-">> \o Decimal(d[3], 2)

\* int(s) on text: surrounding blanks, an optional sign, then digits.
PyInt(s) ==
    LET t    == Strip(s)
        body == IF t # <<>> /\ Head(t) \in {"+", "-"} THEN Tail(t) ELSE t
    IN  IF ~AllDigits(body) THEN Raised
        ELSE IF t # <<>> /\ Head(t) = "-" THEN Ok(0 - DigitsValue(body))
        ELSE Ok(DigitsValue(body))

cents_from_money_str(x0) ==
    LET x == Strip(x0)
        i == IndexOf(x, ".")
    IN  IF x = <<>> THEN Ok(0)
        ELSE LET dollars == IF i > 0 THEN SubSeq(x, 1, i - 1) ELSE x
                 cents   == IF i > 0
                            THEN SubSeq(SubSeq(x, i + 1, Len(x)) \o <<"0", "0">>, 1, 2)
                            ELSE <<"0", "0">>
                 dv      == PyInt(dollars)
                 cv      == PyInt(cents)
             IN  IF dv.ok /\ cv.ok THEN Ok(dv.val * 100 + cv.val) ELSE Raised

money_from_cents(c) ==
    LET a == IF c < 0 THEN 0 - c ELSE c
    IN  (IF c < 0 THEN <<"-">> ELSE <<>>)
            \o Decimal(a \div 100, 1) \o <<".">> \o Decimal(a % 100, 2)

-----------------------------------------------------------------------------
(* Queries                                                                 *)

None == [none |-> TRUE]

\* SELECT * FROM pay_schedules WHERE user_id = ? ... fetchone()
get_schedule(user_id) ==
    IF \E r \in pay_schedules : r.user_id = user_id
    THEN CHOOSE r \in pay_schedules : r.user_id = user_id
    ELSE None

current_pay_period_fourteen_back(schedule_row) ==
    LET next_payday  == parse_ymd(schedule_row.next_payday).val
        period_end   == AddDays(next_payday, -1)
        period_start == AddDays(period_end, -14)
    IN  <<period_start, period_end, next_payday>>

current_pay_period(schedule_row) ==
    LET next_payday  == parse_ymd(schedule_row.next_payday).val
        period_end   == AddDays(next_payday, -1)
        period_start == AddDays(period_end, -13)
    IN  <<period_start, period_end, next_payday>>

\* SUM(amount_cents) over rows; `or 0` makes it 0 when there is none.
RECURSIVE SumAmounts(_)
SumAmounts(rows) ==
    IF rows = <<>> THEN 0 ELSE Head(rows).amount_cents + SumAmounts(Tail(rows))

\* The dashboard's totals query: one user's rows of one kind whose stored
\* occurred_on text lies BETWEEN the formatted period bounds.
PeriodTotal(user_id, kind, start, end) ==
    LET sel(r) == /\ r.user_id = user_id
                  /\ r.kind = kind
                  /\ Between(r.occurred_on, ymd(start), ymd(end))
    IN  SumAmounts(SelectSeq(transactions, sel))

\* The indices of a user's active bills.
ActiveBills(user_id) ==
    {i \in DOMAIN recurring_bills :
        recurring_bills[i].user_id = user_id /\ recurring_bills[i].active = 1}

\* ORDER BY due_day ASC: every order of the selected rows that ascends in
\* due_day (SQL leaves the order of equal keys open).
BillOrders(user_id) ==
    LET S == ActiveBills(user_id)
    IN  {o \in [1..Cardinality(S) -> S] :
            /\ \A i, j \in DOMAIN o : i # j => o[i] # o[j]
            /\ \A i, j \in DOMAIN o :
                   i < j => recurring_bills[o[i]].due_day <= recurring_bills[o[j]].due_day}

DueDate_unclamped_next_month(day, due_day) ==
    LET first_next_month == ReplaceDay(AddDays(ReplaceDay(day, 1), 32), 1)
        last_day         == AddDays(first_next_month, -1)[3]
        actual_day       == Min(due_day, last_day)
        due_date         == ReplaceDay(day, actual_day)
    IN  IF DateLT(due_date, day)
        THEN ReplaceDay(first_next_month, actual_day)
        ELSE due_date

\* Lines 245-257: the date a bill of the given due_day is next due.
DueDate(day, due_day) ==
    LET first_next_month == ReplaceDay(AddDays(ReplaceDay(day, 1), 32), 1)
        last_day         == AddDays(first_next_month, -1)[3]
        actual_day       == Min(due_day, last_day)
        due_date         == ReplaceDay(day, actual_day)
    IN  IF DateLT(due_date, day)
        THEN LET next_month      == ReplaceDay(AddDays(ReplaceDay(day, 1), 32), 1)
                 first_next_next == ReplaceDay(AddDays(next_month, 32), 1)
                 last_day_nm     == AddDays(first_next_next, -1)[3]
                 actual_day_nm   == Min(due_day, last_day_nm)
             IN  ReplaceDay(next_month, actual_day_nm)
        ELSE due_date

-----------------------------------------------------------------------------
(* Requests.  Every handler runs for a logged-in user (session["user_id"]);*)
(* signup, login and logout are outside the model.                         *)

\* What a request returned: the handler and its form, the outcome (a
\* rendered template, a redirect or an unhandled exception), the message
\* flashed, the template's context and the handler's local variables at the
\* return (for an upsert: whether the row existed, i.e. which branch of
\* ON CONFLICT ran).
Resp(handler, user_id, form, status, flash, ctx, frame) ==
    [handler |-> handler, user |-> user_id, form |-> form, status |-> status,
     flash |-> flash, ctx |-> ctx, frame |-> frame]

NoResponse == Resp("", 0, <<>>, "", "", <<>>, <<>>)

UpsertSchedule_insert_only(user_id, next_payday, net_pay_cents) ==
    pay_schedules \cup
        {[user_id |-> user_id, frequency |-> "biweekly",
          next_payday |-> next_payday, typical_net_pay_cents |-> net_pay_cents]}

\* INSERT INTO pay_schedules ... ON CONFLICT(user_id) DO UPDATE SET
\* next_payday, typical_net_pay_cents.
UpsertSchedule(user_id, next_payday, net_pay_cents) ==
    IF \E r \in pay_schedules : r.user_id = user_id
    THEN {IF r.user_id = user_id
          THEN [r EXCEPT !.next_payday = next_payday,
                         !.typical_net_pay_cents = net_pay_cents]
          ELSE r : r \in pay_schedules}
    ELSE pay_schedules \cup
             {[user_id |-> user_id, frequency |-> "biweekly",
               next_payday |-> next_payday,
               typical_net_pay_cents |-> net_pay_cents]}

\* POST /setup
Setup(user_id, next_payday_field, net_pay_field) ==
    LET next_payday == Strip(next_payday_field)
        net_pay     == Strip(net_pay_field)
        form        == [next_payday |-> next_payday_field,
                        typical_net_pay |-> net_pay_field]
        cents       == cents_from_money_str(net_pay)
    IN  /\ UNCHANGED <<today, transactions, budgets, recurring_bills>>
        /\ IF ~parse_ymd(next_payday).ok
           THEN /\ response' = Resp("setup", user_id, form, "render:setup",
                                    "Next payday must be YYYY-MM-DD.", <<>>, <<>>)
                /\ UNCHANGED pay_schedules
           ELSE IF ~cents.ok
           THEN /\ response' = Resp("setup", user_id, form, "error:ValueError", "", <<>>, <<>>)
                /\ UNCHANGED pay_schedules
           ELSE /\ pay_schedules' = UpsertSchedule(user_id, next_payday, cents.val)
                /\ response' = Resp("setup", user_id, form, "redirect:dashboard",
                                    "Setup saved!", <<>>,
                                    [conflict |-> get_schedule(user_id) # None])

\* days_left of lines 270-272.
DaysLeft(end, day) ==
    LET days_left == DaysBetween(end, day) + 1
    IN  IF days_left < 1 THEN 1 ELSE days_left

FloorDiv_truncating(a, b) == IF a >= 0 THEN a \div b ELSE 0 - ((0 - a) \div b)

\* Python's // on integers, for a positive divisor.
FloorDiv(a, b) == a \div b

BillListed_through_payday(due_date, next_payday) == ~DateLT(next_payday, due_date)

\* Line 259: a bill is listed when its due date is before the next payday.
BillListed(due_date, next_payday) == DateLT(due_date, next_payday)

\* The for-loop of lines 242-265 over the fetched bills, from position k on:
\* each bill with the due date computed for it and whether it is listed.
RECURSIVE BillLoop(_, _, _, _)
BillLoop(order, k, day, next_payday) ==
    IF k > Len(order) THEN <<>>
    ELSE LET b        == recurring_bills[order[k]]
             due_date == DueDate(day, b.due_day)
         IN  <<[name |-> b.name, amount_cents |-> b.amount_cents,
                due_day |-> b.due_day, due_date |-> due_date,
                listed |-> BillListed(due_date, next_payday)]>>
                 \o BillLoop(order, k + 1, day, next_payday)

\* GET /dashboard for a user with a schedule, the bills fetched in `order`.
\* (The top-category query only fills two display fields and is left out.)
DashboardFrame(user_id, schedule, order) ==
    LET period           == current_pay_period(schedule)
        start            == period[1]
        end              == period[2]
        next_payday      == period[3]
        income           == PeriodTotal(user_id, "income", start, end)
        expense          == PeriodTotal(user_id, "expense", start, end)
        typical          == schedule.typical_net_pay_cents
        remaining        == typical + income - expense
        loop             == BillLoop(order, 1, today, next_payday)
        listed(e)        == e.listed
        due_rows         == SelectSeq(loop, listed)
        total_due_cents  == SumAmounts(due_rows)
        days_left        == DaysLeft(end, today)
    IN  [start |-> start, end |-> end, next_payday |-> next_payday,
         income |-> income, expense |-> expense, typical |-> typical,
         remaining |-> remaining, bills |-> loop, due_rows |-> due_rows,
         total_due_cents |-> total_due_cents,
         after_bills_cents |-> remaining - total_due_cents,
         days_left |-> days_left,
         daily_limit |-> FloorDiv(remaining, days_left)]

\* The keyword arguments of render_template("dashboard.html", ...).
DashboardContext(f) ==
    [period_start |-> ymd(f.start), period_end |-> ymd(f.end),
     next_payday |-> ymd(f.next_payday),
     typical |-> money_from_cents(f.typical),
     income |-> money_from_cents(f.income),
     expense |-> money_from_cents(f.expense),
     remaining |-> money_from_cents(f.remaining),
     daily_limit |-> money_from_cents(f.daily_limit),
     bills_due |-> [i \in DOMAIN f.due_rows |->
                       [name |-> f.due_rows[i].name,
                        amount |-> money_from_cents(f.due_rows[i].amount_cents),
                        due |-> ymd(f.due_rows[i].due_date)]],
     bills_total |-> money_from_cents(f.total_due_cents),
     after_bills |-> money_from_cents(f.after_bills_cents)]

\* GET /dashboard
Dashboard(user_id) ==
    LET schedule == get_schedule(user_id)
    IN  /\ UNCHANGED <<today, pay_schedules, transactions, budgets, recurring_bills>>
        /\ IF schedule = None
           THEN response' = Resp("dashboard", user_id, <<>>, "redirect:setup", "", <<>>, <<>>)
           ELSE \E order \in BillOrders(user_id) :
                    LET f == DashboardFrame(user_id, schedule, order)
                    IN  response' = Resp("dashboard", user_id, <<>>, "render:dashboard", "",
                                         DashboardContext(f), f)

\* POST /transactions/new (the note column has no reader and is left out).
TransactionNew(user_id, kind, amount, category_field, occurred_on_field) ==
    LET category    == Strip(category_field)
        occurred_on == Strip(occurred_on_field)
        form        == [kind |-> kind, amount |-> amount,
                        category |-> category_field,
                        occurred_on |-> occurred_on_field]
        cents       == cents_from_money_str(amount)
    IN  /\ UNCHANGED <<today, pay_schedules, budgets, recurring_bills>>
        /\ IF kind \notin {"income", "expense"}
           THEN /\ response' = Resp("transaction_new", user_id, form,
                                    "redirect:transaction_new", "Invalid type.", <<>>, <<>>)
                /\ UNCHANGED transactions
           ELSE IF ~parse_ymd(occurred_on).ok
           THEN /\ response' = Resp("transaction_new", user_id, form,
                                    "redirect:transaction_new",
                                    "Date must be YYYY-MM-DD.", <<>>, <<>>)
                /\ UNCHANGED transactions
           ELSE IF ~cents.ok
           THEN /\ response' = Resp("transaction_new", user_id, form,
                                    "error:ValueError", "", <<>>, <<>>)
                /\ UNCHANGED transactions
           ELSE /\ transactions' = Append(transactions,
                       [user_id |-> user_id, kind |-> kind,
                        amount_cents |-> cents.val, category |-> category,
                        occurred_on |-> occurred_on])
                /\ response' = Resp("transaction_new", user_id, form,
                                    "redirect:transactions", "Transaction added!", <<>>, <<>>)

UpsertBudget_insert_only(user_id, category, limit_cents) ==
    budgets \cup
        {[user_id |-> user_id, category |-> category, limit_cents |-> limit_cents]}

\* INSERT INTO budgets ... ON CONFLICT(user_id, category) DO UPDATE SET limit_cents.
UpsertBudget(user_id, category, limit_cents) ==
    IF \E r \in budgets : r.user_id = user_id /\ r.category = category
    THEN {IF r.user_id = user_id /\ r.category = category
          THEN [r EXCEPT !.limit_cents = limit_cents]
          ELSE r : r \in budgets}
    ELSE budgets \cup
             {[user_id |-> user_id, category |-> category, limit_cents |-> limit_cents]}

\* POST /budgets
BudgetsPost(user_id, category_field, limit_field) ==
    LET category == Strip(category_field)
        form     == [category |-> category_field, limit |-> limit_field]
        cents    == cents_from_money_str(Strip(limit_field))
    IN  /\ UNCHANGED <<today, pay_schedules, transactions, recurring_bills>>
        /\ IF ~cents.ok
           THEN /\ response' = Resp("budgets", user_id, form, "error:ValueError", "", <<>>, <<>>)
                /\ UNCHANGED budgets
           ELSE /\ budgets' = UpsertBudget(user_id, category, cents.val)
                /\ response' = Resp("budgets", user_id, form, "redirect:budgets",
                                    "Budget saved!", <<>>,
                                    [conflict |-> \E r \in budgets :
                                        r.user_id = user_id /\ r.category = category])

\* SELECT category, limit_cents FROM budgets WHERE user_id = ? ORDER BY category
RECURSIVE SortByCategory(_)
SortByCategory(rows) ==
    IF rows = {} THEN <<>>
    ELSE LET first == CHOOSE r \in rows : \A q \in rows : TextLE(r.category, q.category)
         IN  <<first>> \o SortByCategory(rows \ {first})

BudgetRows(user_id) == SortByCategory({r \in budgets : r.user_id = user_id})

\* spent_map.get(cat, 0): the expenses of the category in the pay period;
\* the map is empty when the user has no schedule.
SpentCents(user_id, cat) ==
    LET schedule == get_schedule(user_id)
    IN  IF schedule = None THEN 0
        ELSE LET period == current_pay_period(schedule)
                 sel(r) == /\ r.user_id = user_id
                           /\ r.kind = "expense"
                           /\ r.category = cat
                           /\ Between(r.occurred_on, ymd(period[1]), ymd(period[2]))
             IN  SumAmounts(SelectSeq(transactions, sel))

\* int(x) of the quotient a / b, b > 0: truncation toward zero.
TruncDiv(a, b) == IF a >= 0 THEN a \div b ELSE 0 - ((0 - a) \div b)

\* int((spent_cents / limit_cents) * 100).  The program computes this in
\* binary floating point; the model computes the quotient exactly.
PctRaw(spent_cents, limit_cents) == TruncDiv(100 * spent_cents, limit_cents)

Unbound == [bound |-> FALSE, val |-> 0]

Bound(v) == [bound |-> TRUE, val |-> v]

\* The for-loop of lines 427-449 from position k on.  The local pct_raw is
\* assigned only under `if limit_cents > 0` and read on every pass, so it
\* enters each pass as the previous pass left it (unbound before the first
\* assignment).  The result holds the items built, and raised = TRUE when a
\* pass read pct_raw unbound (UnboundLocalError).
RECURSIVE BudgetLoop(_, _, _, _)
BudgetLoop(user_id, rows, k, pct_raw_in) ==
    IF k > Len(rows) THEN [raised |-> FALSE, items |-> <<>>]
    ELSE LET cat         == rows[k].category
             limit_cents == rows[k].limit_cents
             spent_cents == SpentCents(user_id, cat)
             pct_raw     == IF limit_cents > 0
                            THEN Bound(PctRaw(spent_cents, limit_cents))
                            ELSE pct_raw_in
             pct         == IF limit_cents > 0 THEN Min(100, pct_raw.val) ELSE 0
         IN  IF ~pct_raw.bound THEN [raised |-> TRUE, items |-> <<>>]
             ELSE LET status == IF pct_raw.val >= 100 THEN "over"
                                ELSE IF pct_raw.val >= 80 THEN "warn" ELSE "ok"
                      item   == [category |-> cat, limit_cents |-> limit_cents,
                                 spent_cents |-> spent_cents,
                                 remaining_cents |-> limit_cents - spent_cents,
                                 pct |-> pct, status |-> status]
                      rest   == BudgetLoop(user_id, rows, k + 1, pct_raw)
                  IN  [raised |-> rest.raised,
                       items |-> IF rest.raised THEN <<>> ELSE <<item>> \o rest.items]

\* The items handed to render_template("budgets.html", ...).
BudgetsContext(items) ==
    [i \in DOMAIN items |->
        [category |-> items[i].category,
         limit |-> money_from_cents(items[i].limit_cents),
         spent |-> money_from_cents(items[i].spent_cents),
         remaining |-> money_from_cents(items[i].remaining_cents),
         pct |-> items[i].pct, status |-> items[i].status]]

\* GET /budgets
BudgetsView(user_id) ==
    LET loop == BudgetLoop(user_id, BudgetRows(user_id), 1, Unbound)
    IN  /\ UNCHANGED <<today, pay_schedules, transactions, budgets, recurring_bills>>
        /\ IF loop.raised
           THEN response' = Resp("budgets_view", user_id, <<>>,
                                 "error:UnboundLocalError", "", <<>>, <<>>)
           ELSE response' = Resp("budgets_view", user_id, <<>>, "render:budgets", "",
                                 BudgetsContext(loop.items), loop.items)

DueDayOutOfRange_from_zero(due_day_int) == due_day_int < 0 \/ due_day_int > 31

\* Line 476: the range check on the converted due day.
DueDayOutOfRange(due_day_int) == due_day_int < 1 \/ due_day_int > 31

\* POST /bills
BillsPost(user_id, name_field, amount_field, due_day_field) ==
    LET name        == Strip(name_field)
        amount      == Strip(amount_field)
        due_day     == Strip(due_day_field)
        form        == [name |-> name_field, amount |-> amount_field,
                        due_day |-> due_day_field]
        due_day_int == PyInt(due_day)
        cents       == cents_from_money_str(amount)
        rejected    == IF name = <<>> THEN "Bill name required."
                       ELSE IF ~due_day_int.ok THEN "Due day must be a number 1-31."
                       ELSE IF DueDayOutOfRange(due_day_int.val)
                       THEN "Due day must be between 1 and 31."
                       ELSE ""
    IN  /\ UNCHANGED <<today, pay_schedules, transactions, budgets>>
        /\ IF rejected # ""
           THEN /\ response' = Resp("bills", user_id, form, "redirect:bills",
                                    rejected, <<>>, <<>>)
                /\ UNCHANGED recurring_bills
           ELSE IF ~cents.ok
           THEN /\ response' = Resp("bills", user_id, form, "error:ValueError",
                                    "", <<>>, <<>>)
                /\ UNCHANGED recurring_bills
           ELSE /\ recurring_bills' = Append(recurring_bills,
                       [user_id |-> user_id, name |-> name,
                        amount_cents |-> cents.val,
                        due_day |-> due_day_int.val, active |-> 1])
                /\ response' = Resp("bills", user_id, form, "redirect:bills",
                                    "Bill added!", <<>>, <<>>)

\* Midnight: date.today() moves to the next calendar day, between requests.
Tick ==
    /\ today' = NextDay(today)
    /\ response' = NoResponse
    /\ UNCHANGED <<pay_schedules, transactions, budgets, recurring_bills>>

-----------------------------------------------------------------------------
(* Inputs and specifications                                               *)

Users == {1, 2}

\* A month or day number written in one of the forms strptime reads: "01"
\* zero-padded to two digits, "1" in the fewest digits, " 1" with a blank
\* before a single digit.
NumberText(n, form) ==
    IF form = "01" THEN Decimal(n, 2)
    ELSE IF form = " 1" /\ n < 10 THEN <<" ">> \o Decimal(n, 1)
    ELSE Decimal(n, 1)

\* A date written with the month and the day in the given forms.
DateText(d, mform, dform) ==
    Decimal(d[1], 4) \o <<"-">> \o NumberText(d[2], mform)
        \o <<"-">> \o NumberText(d[3], dform)

\* The zero-padded form, YYYY-MM-DD.
Padded(d) == DateText(d, "01", "01")

\* The form in the fewest digits, as in 2024-3-9.
Short(d) == DateText(d, "1", "1")

Rent == <<"R", "e", "n", "t">>

Coffee == <<"C", "o", "f", "f", "e", "e">>

\* The day the bounded runs start on, and how many midnights they follow.
StartDay == <<2024, 2, 24>>

MaxDays == 8

\* Table sizes the bounded runs stop at.
MaxTx == 2

MaxBudgetTx == 2

MaxBills == 2

\* The stretch of days the calendar runs draw from: it holds two turns of
\* the year, a leap and a common February and every month length.
FirstDay == <<2023, 12, 1>>

CalendarDays == 480

CalendarRange == {AddDays(FirstDay, k) : k \in 0..(CalendarDays - 1)}

Empty ==
    /\ pay_schedules = {}
    /\ transactions = <<>>
    /\ budgets = {}
    /\ recurring_bills = <<>>
    /\ response = NoResponse

Init == today = StartDay /\ Empty

\* next_payday fields: 2024-03-01, 2024-3-9, 2024-02-30 (no such day) and a
\* word.
PaydayFields ==
    {Padded(<<2024, 3, 1>>), Short(<<2024, 3, 9>>),
     Padded(<<2024, 2, 30>>), <<"x">>}

\* typical_net_pay fields: 100, -5, 12.5 and a word.
NetPayFields == {<<"1", "0", "0">>, <<"-", "5">>, <<"1", "2", ".", "5">>, <<"x">>}

SetupAny == \E u \in Users, np \in PaydayFields, pay \in NetPayFields : Setup(u, np, pay)

DashboardAny == \E u \in Users : Dashboard(u)

TickBounded == DaysBetween(today, StartDay) < MaxDays /\ Tick

\* Pay schedules over the days: setup posts, dashboards and midnights.
Next == SetupAny \/ DashboardAny \/ TickBounded

Spec == Init /\ [][Next]_vars

\* One schedule: next payday 2024-03-01, net pay 100.00.
SetupOne == \E u \in Users : Setup(u, Padded(<<2024, 3, 1>>), <<"1", "0", "0">>)

\* kind fields: the two kinds and another word.
KindFields == {"income", "expense", "refund"}

\* amount fields: 5, 2.50 and a word.
AmountFields == {<<"5">>, <<"2", ".", "5", "0">>, <<"x">>}

\* occurred_on fields, around the period 2024-02-16..2024-02-29: its first
\* day, 2024-2-20 in the shortest form, the payday itself, and no such day.
OccurredFields ==
    {Padded(<<2024, 2, 16>>), Short(<<2024, 2, 20>>),
     Padded(<<2024, 3, 1>>), Padded(<<2024, 2, 30>>)}

TransactionAny ==
    /\ Len(transactions) < MaxTx
    /\ \E u \in Users, kind \in KindFields, amount \in AmountFields,
          occurred_on \in OccurredFields :
           TransactionNew(u, kind, amount, Rent, occurred_on)

\* Transactions and the dashboard's totals.
NextTx == SetupOne \/ TransactionAny \/ DashboardAny

SpecTx == Init /\ [][NextTx]_vars

\* A Coffee expense of 45.00 on StartDay.
ExpenseAny ==
    /\ Len(transactions) < MaxBudgetTx
    /\ \E u \in Users :
           TransactionNew(u, "expense", <<"4", "5">>, Coffee, Padded(StartDay))

\* limit fields: 0, 50 and a word.
LimitFields == {<<"0">>, <<"5", "0">>, <<"x">>}

BudgetsPostAny ==
    \E u \in Users, category \in {Rent, Coffee}, limit \in LimitFields :
        BudgetsPost(u, category, limit)

BudgetsViewAny == \E u \in Users : BudgetsView(u)

\* Budgets, the period's expenses and the budgets view.
NextBudgets == SetupOne \/ ExpenseAny \/ BudgetsPostAny \/ BudgetsViewAny

SpecBudgets == Init /\ [][NextBudgets]_vars

\* Budgets posts and views alone.
NextBudgetPosts == BudgetsPostAny \/ BudgetsViewAny

SpecBudgetPosts == Init /\ [][NextBudgetPosts]_vars

\* Schedules with the payday on 2024-03-01 or on 2024-3-9.
SetupTwo ==
    \E u \in Users, np \in {Padded(<<2024, 3, 1>>), Short(<<2024, 3, 9>>)} :
        Setup(u, np, <<"1", "0", "0">>)

\* name fields: a name and a blank.
NameFields == {Rent, <<" ">>}

\* amount fields of the bills form: 30, 4.5 and a word.
BillAmountFields == {<<"3", "0">>, <<"4", ".", "5">>, <<"x">>}

\* due_day fields: 0, 1, 29, 31, 32 and a word.
DueDayFields ==
    {<<"0">>, <<"1">>, <<"2", "9">>, <<"3", "1">>, <<"3", "2">>, <<"x">>}

BillsPostAny ==
    /\ Len(recurring_bills) < MaxBills
    /\ \E u \in Users, name \in NameFields, amount \in BillAmountFields,
          due_day \in DueDayFields :
           BillsPost(u, name, amount, due_day)

\* Bills posts alone.
SpecBillPosts == Init /\ [][BillsPostAny]_vars

\* Bills of 30.00 or 4.50 due on day 1 or 29.
BillsPostDue ==
    /\ Len(recurring_bills) < MaxBills
    /\ \E u \in Users, amount \in {<<"3", "0">>, <<"4", ".", "5">>},
          due_day \in {<<"1">>, <<"2", "9">>} :
           BillsPost(u, Rent, amount, due_day)

\* Bills and the dashboard's list of bills due.
NextBills == SetupTwo \/ BillsPostDue \/ DashboardAny

SpecBills == Init /\ [][NextBills]_vars

\* Any day of the calendar range as today, user 1 with a schedule and one
\* bill of any due day.
InitDue ==
    /\ today \in CalendarRange
    /\ pay_schedules = {[user_id |-> 1, frequency |-> "biweekly",
                         next_payday |-> Padded(<<2024, 3, 1>>),
                         typical_net_pay_cents |-> 10000]}
    /\ \E due_day \in 1..31 :
           recurring_bills = <<[user_id |-> 1, name |-> Rent, amount_cents |-> 3000,
                                due_day |-> due_day, active |-> 1]>>
    /\ transactions = <<>>
    /\ budgets = {}
    /\ response = NoResponse

SpecDue == InitDue /\ [][DashboardAny]_vars

\* User 1 with any day of the calendar range stored as next payday, written
\* in any of the forms setup accepts.
InitPeriod ==
    /\ today = StartDay
    /\ \E d \in CalendarRange, mform \in {"01", "1"}, dform \in {"01", "1", " 1"} :
           pay_schedules = {[user_id |-> 1, frequency |-> "biweekly",
                             next_payday |-> DateText(d, mform, dform),
                             typical_net_pay_cents |-> 10000]}
    /\ transactions = <<>>
    /\ budgets = {}
    /\ recurring_bills = <<>>
    /\ response = NoResponse

SpecPeriod == InitPeriod /\ [][DashboardAny]_vars

-----------------------------------------------------------------------------
(* Properties of the pay schedule and the daily allowance                  *)

DashRendered == response.handler = "dashboard" /\ response.status = "render:dashboard"

\* How many calendar days lie from a through b, both included (0 when b is
\* before a).
RECURSIVE DaysThrough(_, _)
DaysThrough(a, b) == IF DateLT(b, a) THEN 0 ELSE 1 + DaysThrough(NextDay(a), b)

\* C4: on every rendered dashboard days_left is the number of days from today
\* through period_end, at least 1 (also when today is past period_end), and
\* daily_limit is the floor of remaining / days_left, for a negative remaining
\* too: daily_limit * days_left <= remaining < (daily_limit + 1) * days_left;
\* the page shows that daily_limit.
C4_DailyLimitIsFloor ==
    DashRendered =>
        LET f == response.frame
        IN  /\ f.days_left = Max(1, DaysThrough(today, f.end))
            /\ f.days_left >= 1
            /\ f.daily_limit * f.days_left <= f.remaining
            /\ f.remaining < (f.daily_limit + 1) * f.days_left
            /\ response.ctx.daily_limit = money_from_cents(f.daily_limit)

\* A dashboard with a negative remaining that the days left do not divide.
C4_Witness ==
    /\ DashRendered
    /\ response.frame.remaining < 0
    /\ response.frame.days_left > 1
    /\ response.frame.remaining % response.frame.days_left # 0

OneSchedulePerUser ==
    /\ \A r, q \in pay_schedules : r.user_id = q.user_id => r = q
    /\ \A r \in pay_schedules : r.frequency = "biweekly"

\* The step is a setup post.
SetupStep == response' # response /\ response'.handler = "setup"

\* The schedules after the step are those before it, with the posting user's
\* row holding the posted next_payday and the given cents, and no row more.
ScheduleReplaced(cents) ==
    LET u == response'.user
    IN  /\ \E r \in pay_schedules' :
               /\ r.user_id = u
               /\ r.next_payday = Strip(response'.form.next_payday)
               /\ Ok(r.typical_net_pay_cents) = cents
        /\ {r \in pay_schedules' : r.user_id # u} = {r \in pay_schedules : r.user_id # u}
        /\ Cardinality(pay_schedules') = Cardinality(pay_schedules)

\* C5 as stated: every setup post with a valid date by a user who has a
\* schedule replaces next_payday and typical_net_pay_cents with the posted
\* values.
C5_AsStated ==
    [][(/\ SetupStep
        /\ parse_ymd(Strip(response'.form.next_payday)).ok
        /\ get_schedule(response'.user) # None)
       => ScheduleReplaced(cents_from_money_str(Strip(response'.form.typical_net_pay)))]_vars

\* C5, amended: every user has at most one pay_schedules row, of frequency
\* 'biweekly'; a setup post with a valid date and a typical_net_pay that
\* cents_from_money_str converts, by a user who has a schedule, replaces that
\* row's next_payday and typical_net_pay_cents with the posted values and adds
\* no row (and gives a user without one exactly one row); a setup post whose
\* date is not valid, or whose typical_net_pay does not convert, leaves the
\* schedules unchanged.
C5_OneScheduleUpserted ==
    /\ []OneSchedulePerUser
    /\ [][SetupStep =>
            LET date  == parse_ymd(Strip(response'.form.next_payday))
                cents == cents_from_money_str(Strip(response'.form.typical_net_pay))
            IN  IF date.ok /\ cents.ok
                THEN IF get_schedule(response'.user) # None
                     THEN ScheduleReplaced(cents)
                     ELSE pay_schedules' = pay_schedules \cup
                              {[user_id |-> response'.user, frequency |-> "biweekly",
                                next_payday |-> Strip(response'.form.next_payday),
                                typical_net_pay_cents |-> cents.val]}
                ELSE pay_schedules' = pay_schedules]_vars

\* A setup post that met the user's existing row and left it with the values
\* just posted, beside the other user's row.
C5_Witness ==
    /\ response.handler = "setup"
    /\ response.status = "redirect:dashboard"
    /\ response.frame.conflict
    /\ Cardinality(pay_schedules) = 2
    /\ get_schedule(response.user).next_payday = Strip(response.form.next_payday)
    /\ Ok(get_schedule(response.user).typical_net_pay_cents)
           = cents_from_money_str(Strip(response.form.typical_net_pay))

\* C10: whenever the dashboard is rendered, today lies in the pay period it
\* derives: period_start <= today < next_payday.
C10_PeriodIsCurrent ==
    DashRendered =>
        /\ ~DateLT(today, response.frame.start)
        /\ DateLT(today, response.frame.next_payday)

-----------------------------------------------------------------------------
(* Properties of the pay period                                            *)

RECURSIVE DaysBack(_, _)
DaysBack(d, k) == IF k = 0 THEN d ELSE DaysBack(PrevDay(d), k - 1)

\* The day a stored next_payday text names: the date one of whose written
\* forms is the text.
Names(text, d) ==
    \E mform \in {"01", "1"}, dform \in {"01", "1", " 1"} : DateText(d, mform, dform) = text

\* C1: for every stored next_payday, current_pay_period returns the day
\* before next_payday as period_end, the day 14 days before next_payday as
\* period_start, 14 calendar days in all, and next_payday itself; the
\* dashboard shows these three dates.
C1_PeriodIsFourteenDays ==
    /\ \A r \in pay_schedules :
           LET p == current_pay_period(r)
           IN  /\ Names(r.next_payday, p[3])
               /\ p[2] = PrevDay(p[3])
               /\ p[1] = DaysBack(p[3], 14)
               /\ DaysThrough(p[1], p[2]) = 14
    /\ DashRendered =>
           LET f == response.frame
           IN  /\ Names(get_schedule(response.user).next_payday, f.next_payday)
               /\ f.end = PrevDay(f.next_payday)
               /\ f.start = DaysBack(f.next_payday, 14)
               /\ response.ctx.period_start = ymd(f.start)
               /\ response.ctx.period_end = ymd(f.end)
               /\ response.ctx.next_payday = ymd(f.next_payday)

\* A dashboard whose pay period runs across the turn of the year, from a
\* next_payday stored in a form other than the zero-padded one.
C1_Witness ==
    /\ DashRendered
    /\ response.frame.start[1] < response.frame.end[1]
    /\ get_schedule(response.user).next_payday # response.ctx.next_payday

-----------------------------------------------------------------------------
(* Properties of the dashboard's totals                                    *)

\* The transaction's date lies in the period, as dates.
InPeriod(r, start, end) ==
    LET d == parse_ymd(r.occurred_on).val
    IN  ~DateLT(d, start) /\ ~DateLT(end, d)

\* The sum of amount_cents of the user's transactions of a kind dated in the
\* period.
PeriodSum(user_id, kind, start, end) ==
    LET sel(r) == r.user_id = user_id /\ r.kind = kind /\ InPeriod(r, start, end)
    IN  SumAmounts(SelectSeq(transactions, sel))

\* C2: the dashboard reports remaining = typical_net_pay_cents + income -
\* expense over exactly the user's transactions whose occurred_on date lies
\* in [period_start, period_end], for every transaction the form accepted.
C2_RemainingCountsPeriod ==
    DashRendered =>
        LET f == response.frame
            u == response.user
            expected == get_schedule(u).typical_net_pay_cents
                            + PeriodSum(u, "income", f.start, f.end)
                            - PeriodSum(u, "expense", f.start, f.end)
        IN  /\ f.remaining = expected
            /\ response.ctx.remaining = money_from_cents(expected)

-----------------------------------------------------------------------------
(* Properties of the bills                                                 *)

\* The earliest day from d on whose day of the month is the due day clamped
\* to the length of its month.
RECURSIVE NextOccurrence(_, _)
NextOccurrence(d, due_day) ==
    IF d[3] = Min(due_day, DaysInMonth(d[1], d[2])) THEN d
    ELSE NextOccurrence(NextDay(d), due_day)

\* The month after the month of d, as <<year, month>>.
MonthAfter(d) == IF d[2] = 12 THEN <<d[1] + 1, 1>> ELSE <<d[1], d[2] + 1>>

\* C3: for every active bill and every today, the due date the dashboard
\* computes is the bill's next occurrence, the earliest d >= today whose day
\* of the month is min(due_day, days in d's month): in the current month when
\* that clamped day has not passed, else in the following month, clamped to
\* that month's length.
C3_DueDateIsNextOccurrence ==
    DashRendered =>
        \A i \in DOMAIN response.frame.bills :
            LET e       == response.frame.bills[i]
                clamped == Min(e.due_day, DaysInMonth(today[1], today[2]))
                after   == MonthAfter(today)
            IN  /\ e.due_date = NextOccurrence(today, e.due_day)
                /\ e.due_date =
                       IF clamped >= today[3] THEN <<today[1], today[2], clamped>>
                       ELSE <<after[1], after[2],
                              Min(e.due_day, DaysInMonth(after[1], after[2]))>>

\* A bill whose day has passed this month and is clamped in the next one.
C3_Witness ==
    /\ DashRendered
    /\ \E i \in DOMAIN response.frame.bills :
           LET e == response.frame.bills[i]
           IN  /\ <<e.due_date[1], e.due_date[2]>> = MonthAfter(today)
               /\ e.due_date[3] < e.due_day

BillsInRange ==
    \A i \in DOMAIN recurring_bills :
        recurring_bills[i].due_day \in 1..31 /\ recurring_bills[i].active = 1

\* The step is a bills post.
BillsStep == response' # response /\ response'.handler = "bills"

\* C7: every stored bill has due_day in 1..31 and active = 1; a bills post
\* with an empty name, a due_day that is no integer, or a due_day below 1 or
\* above 31 is rejected and leaves recurring_bills unchanged.
C7_BillsValidated ==
    /\ []BillsInRange
    /\ [][BillsStep =>
            LET form == response'.form
                day  == PyInt(Strip(form.due_day))
            IN  (Strip(form.name) = <<>> \/ ~day.ok \/ day.val < 1 \/ day.val > 31)
                    => /\ recurring_bills' = recurring_bills
                       /\ response'.status = "redirect:bills"
                       /\ response'.flash # "Bill added!"]_vars

\* A post with due_day 0 or 32 was turned away while a bill is stored.
C7_Witness ==
    /\ response.handler = "bills"
    /\ response.flash = "Due day must be between 1 and 31."
    /\ Len(recurring_bills) > 0

\* The user's active bills whose next occurrence is before the payday.
DueBefore(user_id, next_payday) ==
    {i \in DOMAIN recurring_bills :
        /\ recurring_bills[i].user_id = user_id
        /\ recurring_bills[i].active = 1
        /\ DateLT(NextOccurrence(today, recurring_bills[i].due_day), next_payday)}

RECURSIVE SumOver(_)
SumOver(S) ==
    IF S = {} THEN 0
    ELSE LET i == CHOOSE j \in S : TRUE
         IN  recurring_bills[i].amount_cents + SumOver(S \ {i})

\* C8: the dashboard lists exactly the user's active bills whose next due
\* date is strictly before next_payday, each with a due date d, today <= d <
\* next_payday; bills_total is the sum of their amounts and after_bills is
\* remaining - bills_total.
C8_BillsDueBeforePayday ==
    DashRendered =>
        LET f      == response.frame
            listed == response.ctx.bills_due
            due    == DueBefore(response.user, f.next_payday)
        IN  /\ \E m \in [DOMAIN listed -> due] :
                   /\ \A i, j \in DOMAIN listed : i # j => m[i] # m[j]
                   /\ \A i \in DOMAIN listed :
                          LET b == recurring_bills[m[i]]
                          IN  /\ listed[i].name = b.name
                              /\ listed[i].amount = money_from_cents(b.amount_cents)
                              /\ listed[i].due = ymd(NextOccurrence(today, b.due_day))
            /\ Len(listed) = Cardinality(due)
            /\ \A i \in DOMAIN listed :
                   LET d == parse_ymd(listed[i].due).val
                   IN  ~DateLT(d, today) /\ DateLT(d, f.next_payday)
            /\ response.ctx.bills_total = money_from_cents(SumOver(due))
            /\ response.ctx.after_bills = money_from_cents(f.remaining - SumOver(due))

\* A dashboard that lists one bill and leaves out another of the same user
\* that falls due on the payday itself.
C8_Witness ==
    /\ DashRendered
    /\ Len(response.ctx.bills_due) = 1
    /\ \E i \in DOMAIN response.frame.bills :
           response.frame.bills[i].due_date = response.frame.next_payday

-----------------------------------------------------------------------------
(* Properties of the budgets                                               *)

OneBudgetPerCategory ==
    \A r, q \in budgets : (r.user_id = q.user_id /\ r.category = q.category) => r = q

\* The step is a budgets post.
BudgetsStep == response' # response /\ response'.handler = "budgets"

PostedKey(r) == r.user_id = response'.user /\ r.category = Strip(response'.form.category)

\* The budgets after the step are those before it with the posted category's
\* row of the posting user holding the given cents.
BudgetWritten(cents) ==
    /\ \E r \in budgets' : PostedKey(r) /\ Ok(r.limit_cents) = cents
    /\ {r \in budgets' : ~PostedKey(r)} = {r \in budgets : ~PostedKey(r)}

\* C6 as stated: at most one budget per (user_id, category), and every post
\* of a limit for a category the user already budgeted overwrites that
\* budget's limit_cents with the new value and changes no other budget.
C6_AsStated ==
    /\ []OneBudgetPerCategory
    /\ [][(BudgetsStep /\ \E r \in budgets : PostedKey(r))
            => BudgetWritten(cents_from_money_str(Strip(response'.form.limit)))]_vars

\* C6, amended: at most one budget per (user_id, category); a post whose
\* limit cents_from_money_str converts writes that value as the limit_cents of
\* the user's budget of the category (overwriting it when there is one, last
\* write wins) and changes no budget of another category or user; a post
\* whose limit does not convert leaves the budgets unchanged.
C6_OneBudgetUpserted ==
    /\ []OneBudgetPerCategory
    /\ [][BudgetsStep =>
            LET cents == cents_from_money_str(Strip(response'.form.limit))
            IN  IF cents.ok
                THEN /\ BudgetWritten(cents)
                     /\ (\E r \in budgets : PostedKey(r))
                            => Cardinality(budgets') = Cardinality(budgets)
                ELSE budgets' = budgets]_vars

\* A post that met the user's budget of the category and left it with the
\* posted limit, beside a budget of the other category and the other user's.
C6_Witness ==
    /\ response.handler = "budgets"
    /\ response.status = "redirect:budgets"
    /\ response.frame.conflict
    /\ Cardinality(budgets) >= 3
    /\ \E r \in budgets :
           /\ r.user_id = response.user
           /\ r.category = Strip(response.form.category)
           /\ Ok(r.limit_cents) = cents_from_money_str(Strip(response.form.limit))

\* C9: the budgets view renders, and each item's pct and status follow from
\* its own spent_cents and limit_cents: for limit_cents > 0, pct = min(100,
\* floor(100 * spent / limit)) and status 'over' when spent >= limit, 'warn'
\* when 80% <= spent / limit < 100%, 'ok' otherwise; for limit_cents = 0,
\* pct 0 and status 'ok'.
C9_ItemStatusIsOwn ==
    response.handler = "budgets_view" =>
        /\ response.status = "render:budgets"
        /\ \A i \in DOMAIN response.frame :
               LET it == response.frame[i]
               IN  /\ it.limit_cents > 0 =>
                       /\ it.pct = Min(100, (100 * it.spent_cents) \div it.limit_cents)
                       /\ it.status =
                              IF it.spent_cents >= it.limit_cents THEN "over"
                              ELSE IF 100 * it.spent_cents >= 80 * it.limit_cents
                              THEN "warn" ELSE "ok"
                   /\ it.limit_cents = 0 => it.pct = 0 /\ it.status = "ok"

=============================================================================
